---- MODULE Spec2Model ----
(***************************************************************************)
(* Model of scot/ooapi.py: the SCoT orchestrator object.                   *)
(*                                                                         *)
(* The fields of a SCoT instance are the variables; every public method    *)
(* is one action that runs the whole method body.  Arrays are concrete     *)
(* (shape + element function, 1-based indices), the numeric collaborators  *)
(* (mvarica, var.fit, var.fit_multiclass, Connectivity, Topoplot) return   *)
(* terms built from their arguments, and any of mvarica / var.fit /        *)
(* var.fit_multiclass / Connectivity may raise.                            *)
(*                                                                         *)
(* `x == None` / `x != None` are read as identity tests on None, as the    *)
(* code intends.                                                           *)
(***************************************************************************)
EXTENDS Integers, Sequences, FiniteSets, TLC

VARIABLES data_, cl_, unmixing_, mixing_, activations_, var_model_, var_cov_,
          var_order_, var_delta_, connectivity_, locations_, reducedim_,
          nfft_, backend_, topo_, mixmaps_, unmixmaps_,
          lastOp, args, ret, calls, pre, origin

fields == <<data_, cl_, unmixing_, mixing_, activations_, var_model_, var_cov_,
            var_order_, var_delta_, connectivity_, locations_, reducedim_,
            nfft_, backend_, topo_, mixmaps_, unmixmaps_>>

vars == <<fields, lastOp, args, ret, calls, pre, origin>>

-----------------------------------------------------------------------------
(* Bounds of the model *)

\* longest window length tried by getTFConnectivity
MaxWin == 3

\* largest window step tried by getTFConnectivity
MaxStep == 2

-----------------------------------------------------------------------------
(* Python values *)

None == [rep |-> "none"]

\* a sequence of class labels, one per trial
Labels(q) == [rep |-> "labels", seq |-> q]

\* a rational number num/den, for the reducedim configuration value
Rat(n, d) == [rep |-> "number", num |-> n, den |-> d]

\* the comparison as it would be if the value 1 still selected the
\* retained-variance mode
LessThanOne_orEqual(q) == q.num <= q.den

\* q < 1
LessThanOne(q) == q.num < q.den

RECURSIVE SumOver(_, _)
SumOver(S, f) ==
    IF S = {} THEN 0
    ELSE LET x == CHOOSE y \in S : TRUE
         IN  f[x] + SumOver(S \ {x}, f)

\* arrays: the shape and the elements as nested sequences, one level per
\* axis, indexed from 1 (the code's index i is i + 1 here)
ndarray(shape, at) == [rep |-> "ndarray", shape |-> shape, at |-> at]

\* numpy.atleast_3d: (N,) -> (1,N,1); (M,N) -> (M,N,1); 3-D and up unchanged
atleast_3d(a) ==
    IF Len(a.shape) = 1
      THEN ndarray(<<1, a.shape[1], 1>>,
                   <<[m \in 1..a.shape[1] |-> <<a.at[m]>>]>>)
    ELSE IF Len(a.shape) = 2
      THEN ndarray(<<a.shape[1], a.shape[2], 1>>,
                   [n \in 1..a.shape[1] |-> [m \in 1..a.shape[2] |-> <<a.at[n][m]>>]])
    ELSE a

\* datatools.dot_special(x, a): every trial slice x[:,:,t] times the matrix a
dot_special(x, a) ==
    ndarray(<<x.shape[1], a.shape[2], x.shape[3]>>,
            [n \in 1..x.shape[1] |->
               [k \in 1..a.shape[2] |->
                  [t \in 1..x.shape[3] |->
                     SumOver(1..x.shape[2],
                             [m \in 1..x.shape[2] |-> x.at[n][m][t] * a.at[m][k]])]]])

\* win = np.arange(winlen) + n: the sample indices n, n+1, .., n+winlen-1
arange(winlen, n) == [j \in 1..winlen |-> (j - 1) + n]

\* a[win,:,:] with win = arange(winlen) + n   (n is the 0-based start sample)
TakeWindow(a, n, winlen) ==
    ndarray(<<winlen, a.shape[2], a.shape[3]>>, [i \in 1..winlen |-> a.at[i + n]])

\* numpy.unique(cl): the distinct labels in ascending order
RECURSIVE SortedSeq(_)
SortedSeq(S) ==
    IF S = {} THEN <<>>
    ELSE LET lo == CHOOSE x \in S : \A y \in S : x <= y
         IN  <<lo>> \o SortedSeq(S \ {lo})

unique(cl) ==
    IF cl = None THEN <<None>>
    ELSE SortedSeq({cl.seq[i] : i \in 1..Len(cl.seq)})

SeqToSet(q) == {q[i] : i \in 1..Len(q)}

\* range(0, stop, step) for step >= 1
RECURSIVE RangeFrom(_, _, _)
RangeFrom(n, stop, step) ==
    IF n >= stop THEN <<>> ELSE <<n>> \o RangeFrom(n + step, stop, step)

\* range as it would be if the loop also visited a window starting at stop
range_throughStop(stop, step) == RangeFrom(0, stop + 1, step)

range(stop, step) == RangeFrom(0, stop, step)

-----------------------------------------------------------------------------
(* Outcome of one method call *)

Ok(v) == [kind |-> "ok", value |-> v]

\* an exception leaves the method: nothing is returned to the caller
Raise(kind, msg) == [kind |-> kind, value |-> None, msg |-> msg]

\* the error kinds of the design, by the exception the code raises
PreconditionError == "RuntimeError"

UnsupportedMeasureError == "AttributeError"

ComputationError == "ComputationError"

\* one invocation of a collaborator, as seen from the orchestrator; array
\* arguments are recorded by their shape, AR models by their origin
Call(fn, a, ok) == [fn |-> fn, args |-> a, ok |-> ok]

Brief(ca) ==
    [b |-> [part |-> ca.b.part, by |-> ca.b.by, cls |-> ca.b.cls],
     c |-> [part |-> ca.c.part, by |-> ca.c.by, cls |-> ca.c.cls],
     nfft |-> ca.nfft]

\* which collaborator invocation raises during one method call, if any:
\* the idx-th invocation of fn (fn = "-": nothing raises)
NoFail == [fn |-> "-", idx |-> 0]

Fails(fail, fn, idx) == fail.fn = fn /\ fail.idx = idx

-----------------------------------------------------------------------------
(* Collaborators: varica.mvarica, var.fit, var.fit_multiclass,             *)
(* connectivity.Connectivity, eegtopo.topoplot.Topoplot                    *)

Min(a, b) == IF a <= b THEN a ELSE b

\* number of components the separator keeps
NumComp(X, rv, nc, seed) ==
    IF nc # None THEN Min(nc.num \div nc.den, X.shape[2])
    ELSE 1 + ((seed - 1) % X.shape[2])

VarTerm(part, by, data, cls, P, delta) ==
    [rep |-> "var", part |-> part, by |-> by, data |-> data, cls |-> cls,
     P |-> P, delta |-> delta]

\* result of the source separator; seed picks one of its possible outcomes
mvarica(X, P, rv, nc, delta, backend, seed) ==
    LET M == X.shape[2]
        K == NumComp(X, rv, nc, seed)
    IN  [mixing   |-> ndarray(<<K, M>>, [k \in 1..K |-> [m \in 1..M |-> (k * seed + m) % 3]]),
         unmixing |-> ndarray(<<M, K>>, [m \in 1..M |-> [k \in 1..K |-> (m + k * seed) % 3]]),
         B        |-> VarTerm("B", "mvarica", X, [seed |-> seed], P, delta),
         C        |-> VarTerm("C", "mvarica", X, [seed |-> seed], P, delta),
         delta    |-> IF delta = None THEN Rat(1, 2) ELSE delta]

\* var.fit(data, P, delta, return_covariance=True) -> (B, C)
var_fit(data, P, delta) ==
    [B |-> VarTerm("B", "fit", data, None, P, delta),
     C |-> VarTerm("C", "fit", data, None, P, delta)]

\* var.fit_multiclass(data, cl, P, delta, return_covariance=True) -> (B, C),
\* each a mapping from the distinct labels to the fit on that label's trials
var_fit_multiclass(data, cl, P, delta) ==
    [B |-> [rep |-> "dict",
            items |-> [c \in SeqToSet(unique(cl)) |->
                          VarTerm("B", "fit", data, [cl |-> cl, c |-> c], P, delta)]],
     C |-> [rep |-> "dict",
            items |-> [c \in SeqToSet(unique(cl)) |->
                          VarTerm("C", "fit", data, [cl |-> cl, c |-> c], P, delta)]]]

Connectivity(b, c, nfft) == [rep |-> "Connectivity", b |-> b, c |-> c, nfft |-> nfft]

\* the measures a Connectivity object has as methods
Measures == {"dtf", "pdc"}

hasattr(con, measure) == measure \in Measures

\* getattr(con, measure)(): an array computed in numpy's default (double)
\* precision
Evaluate(con, measure) ==
    [rep |-> "measure", name |-> measure, of |-> con, dtype |-> "complex128"]

\* Topoplot after set_locations, set_values(v), create_map: get_map()
TopoMap(locations, v) == [rep |-> "map", locations |-> locations, values |-> v]

Topoplot(locations) == [rep |-> "Topoplot", locations |-> locations]

\* a[i,:] and a[:,i] of a matrix (i is 0-based as in the code)
Row(a, i) == a.at[i + 1]

Col(a, i) == [j \in 1..a.shape[1] |-> a.at[j][i + 1]]

\* dict values
EmptyDict == [rep |-> "dict", items |-> <<>>]

IsDict(x) == x.rep = "dict"

Keys(d) == DOMAIN d.items

DictSet(d, k, v) ==
    [rep |-> "dict", items |-> [x \in Keys(d) \cup {k} |-> IF x = k THEN v ELSE d.items[x]]]

-----------------------------------------------------------------------------
(* The methods of class SCoT.  Each takes the object s (a record of its    *)
(* fields) and the call's arguments and yields the object after the call,  *)
(* what the caller gets (ret) and the collaborator invocations made.       *)

Outcome(s, r, log) == [s |-> s, ret |-> r, calls |-> log]

\* SCoT.__init__
SCoT(var_order, var_delta, locations, reducedim, nfft, backend) ==
    [data_ |-> None, cl_ |-> None, unmixing_ |-> None, mixing_ |-> None,
     activations_ |-> None, var_model_ |-> None, var_cov_ |-> None,
     var_order_ |-> var_order, var_delta_ |-> var_delta,
     connectivity_ |-> None, locations_ |-> locations,
     reducedim_ |-> reducedim, nfft_ |-> nfft, backend_ |-> backend,
     topo_ |-> None, mixmaps_ |-> <<>>, unmixmaps_ |-> <<>>]

\* setData as it would be if it left the Connectivity Model in place
setData_keepsConnectivity(s, data, cl) ==
    LET s1 == [s EXCEPT !.data_ = atleast_3d(data), !.cl_ = cl,
                        !.var_model_ = None, !.var_cov_ = None]
    IN  IF s1.unmixing_ # None
          THEN Outcome([s1 EXCEPT !.activations_ =
                            dot_special(s1.data_, s1.unmixing_)],
                       Ok(None), <<>>)
          ELSE Outcome(s1, Ok(None), <<>>)

\* setData as it would be if it projected only when no activations exist yet
setData_projectsOnce(s, data, cl) ==
    LET s1 == [s EXCEPT !.data_ = atleast_3d(data), !.cl_ = cl,
                        !.var_model_ = None, !.var_cov_ = None,
                        !.connectivity_ = None]
    IN  IF s1.unmixing_ # None /\ s1.activations_ = None
          THEN Outcome([s1 EXCEPT !.activations_ =
                            dot_special(s1.data_, s1.unmixing_)],
                       Ok(None), <<>>)
          ELSE Outcome(s1, Ok(None), <<>>)

\* setData as it would be if it kept the models when handed the data and the
\* labels it already holds
setData_keepsModelsForSameData(s, data, cl) ==
    LET s1 == IF atleast_3d(data) = s.data_ /\ cl = s.cl_
                THEN s
                ELSE [s EXCEPT !.data_ = atleast_3d(data), !.cl_ = cl,
                               !.var_model_ = None, !.var_cov_ = None,
                               !.connectivity_ = None]
    IN  IF s1.unmixing_ # None
          THEN Outcome([s1 EXCEPT !.activations_ =
                            dot_special(s1.data_, s1.unmixing_)],
                       Ok(None), <<>>)
          ELSE Outcome(s1, Ok(None), <<>>)

\* SCoT.setData
setData(s, data, cl) ==
    LET s1 == [s EXCEPT !.data_ = atleast_3d(data), !.cl_ = cl,
                        !.var_model_ = None, !.var_cov_ = None,
                        !.connectivity_ = None]
    IN  IF s1.unmixing_ # None
          THEN Outcome([s1 EXCEPT !.activations_ =
                            dot_special(s1.data_, s1.unmixing_)],
                       Ok(None), <<>>)
          ELSE Outcome(s1, Ok(None), <<>>)

\* doMVARICA as it would be if it built one Connectivity Model per class
\* label whenever class labels are set
doMVARICA_perClass(s, seed, fail) ==
    IF s.data_ = None
      THEN Outcome(s, Raise(PreconditionError, "MVARICA requires data to be set"), <<>>)
    ELSE
      LET rv == IF LessThanOne(s.reducedim_) THEN s.reducedim_ ELSE None
          nc == IF LessThanOne(s.reducedim_) THEN None ELSE s.reducedim_
          a  == [X |-> s.data_.shape, P |-> s.var_order_, retain_variance |-> rv,
                 numcomp |-> nc, delta |-> s.var_delta_, backend |-> s.backend_]
      IN  IF Fails(fail, "mvarica", 1)
            THEN Outcome(s, Raise(ComputationError, "mvarica"),
                         <<Call("mvarica", a, FALSE)>>)
          ELSE
            LET result == mvarica(s.data_, s.var_order_, rv, nc, s.var_delta_,
                                  s.backend_, seed)
                s1 == [s EXCEPT !.mixing_ = result.mixing,
                                !.unmixing_ = result.unmixing,
                                !.var_model_ = result.B,
                                !.var_cov_ = result.C,
                                !.var_delta_ = result.delta]
                ca == [b |-> s1.var_model_, c |-> s1.var_cov_, nfft |-> s1.nfft_]
                con == Connectivity(s1.var_model_, s1.var_cov_, s1.nfft_)
            IN  IF Fails(fail, "Connectivity", 1)
                  THEN Outcome(s1, Raise(ComputationError, "Connectivity"),
                               <<Call("mvarica", a, TRUE),
                                 Call("Connectivity", Brief(ca), FALSE)>>)
                ELSE Outcome([s1 EXCEPT !.connectivity_ =
                                  IF s1.cl_ = None THEN con
                                  ELSE [rep |-> "dict",
                                        items |-> [c \in SeqToSet(unique(s1.cl_)) |-> con]]],
                             Ok(None),
                             <<Call("mvarica", a, TRUE),
                               Call("Connectivity", Brief(ca), TRUE)>>)

\* doMVARICA as it would be if it also projected the data through the new
\* unmixing matrix
doMVARICA_projects(s, seed, fail) ==
    IF s.data_ = None
      THEN Outcome(s, Raise(PreconditionError, "MVARICA requires data to be set"), <<>>)
    ELSE
      LET rv == IF LessThanOne(s.reducedim_) THEN s.reducedim_ ELSE None
          nc == IF LessThanOne(s.reducedim_) THEN None ELSE s.reducedim_
          a  == [X |-> s.data_.shape, P |-> s.var_order_, retain_variance |-> rv,
                 numcomp |-> nc, delta |-> s.var_delta_, backend |-> s.backend_]
      IN  IF Fails(fail, "mvarica", 1)
            THEN Outcome(s, Raise(ComputationError, "mvarica"),
                         <<Call("mvarica", a, FALSE)>>)
          ELSE
            LET result == mvarica(s.data_, s.var_order_, rv, nc, s.var_delta_,
                                  s.backend_, seed)
                s1 == [s EXCEPT !.mixing_ = result.mixing,
                                !.unmixing_ = result.unmixing,
                                !.var_model_ = result.B,
                                !.var_cov_ = result.C,
                                !.var_delta_ = result.delta,
                                !.activations_ = dot_special(s.data_, result.unmixing)]
                ca == [b |-> s1.var_model_, c |-> s1.var_cov_, nfft |-> s1.nfft_]
            IN  IF Fails(fail, "Connectivity", 1)
                  THEN Outcome(s1, Raise(ComputationError, "Connectivity"),
                               <<Call("mvarica", a, TRUE),
                                 Call("Connectivity", Brief(ca), FALSE)>>)
                ELSE Outcome([s1 EXCEPT !.connectivity_ =
                                  Connectivity(s1.var_model_, s1.var_cov_, s1.nfft_)],
                             Ok(None),
                             <<Call("mvarica", a, TRUE),
                               Call("Connectivity", Brief(ca), TRUE)>>)

\* SCoT.doMVARICA
doMVARICA(s, seed, fail) ==
    IF s.data_ = None
      THEN Outcome(s, Raise(PreconditionError, "MVARICA requires data to be set"), <<>>)
    ELSE
      LET rv == IF LessThanOne(s.reducedim_) THEN s.reducedim_ ELSE None
          nc == IF LessThanOne(s.reducedim_) THEN None ELSE s.reducedim_
          a  == [X |-> s.data_.shape, P |-> s.var_order_, retain_variance |-> rv,
                 numcomp |-> nc, delta |-> s.var_delta_, backend |-> s.backend_]
      IN  IF Fails(fail, "mvarica", 1)
            THEN Outcome(s, Raise(ComputationError, "mvarica"),
                         <<Call("mvarica", a, FALSE)>>)
          ELSE
            LET result == mvarica(s.data_, s.var_order_, rv, nc, s.var_delta_,
                                  s.backend_, seed)
                s1 == [s EXCEPT !.mixing_ = result.mixing,
                                !.unmixing_ = result.unmixing,
                                !.var_model_ = result.B,
                                !.var_cov_ = result.C,
                                !.var_delta_ = result.delta]
                ca == [b |-> s1.var_model_, c |-> s1.var_cov_, nfft |-> s1.nfft_]
            IN  IF Fails(fail, "Connectivity", 1)
                  THEN Outcome(s1, Raise(ComputationError, "Connectivity"),
                               <<Call("mvarica", a, TRUE),
                                 Call("Connectivity", Brief(ca), FALSE)>>)
                ELSE Outcome([s1 EXCEPT !.connectivity_ =
                                  Connectivity(s1.var_model_, s1.var_cov_, s1.nfft_)],
                             Ok(None),
                             <<Call("mvarica", a, TRUE),
                               Call("Connectivity", Brief(ca), TRUE)>>)

\* the loop `for c in np.unique(self.cl_): self.connectivity_[c] = ...` of
\* fitVAR, from position k of the label sequence on
RECURSIVE fitVAR_loop(_, _, _, _, _)
fitVAR_loop(s, labels, k, fail, log) ==
    IF k > Len(labels) THEN Outcome(s, Ok(None), log)
    ELSE
      LET c  == labels[k]
          ca == [b |-> s.var_model_.items[c], c |-> s.var_cov_.items[c],
                 nfft |-> s.nfft_]
      IN  IF Fails(fail, "Connectivity", k)
            THEN Outcome(s, Raise(ComputationError, "Connectivity"),
                         Append(log, Call("Connectivity", Brief(ca), FALSE)))
          ELSE fitVAR_loop(
                 [s EXCEPT !.connectivity_ =
                      DictSet(s.connectivity_, c,
                              Connectivity(ca.b, ca.c, ca.nfft))],
                 labels, k + 1, fail,
                 Append(log, Call("Connectivity", Brief(ca), TRUE)))

\* SCoT.fitVAR
fitVAR(s, fail) ==
    IF s.activations_ = None
      THEN Outcome(s, Raise(PreconditionError, "VAR fitting requires activations"), <<>>)
    ELSE IF s.cl_ = None
      THEN
        LET a == [data |-> s.activations_.shape, P |-> s.var_order_, delta |-> s.var_delta_]
        IN  IF Fails(fail, "fit", 1)
              THEN Outcome(s, Raise(ComputationError, "var.fit"),
                           <<Call("var.fit", a, FALSE)>>)
            ELSE
              LET r  == var_fit(s.activations_, s.var_order_, s.var_delta_)
                  s1 == [s EXCEPT !.var_model_ = r.B, !.var_cov_ = r.C]
                  ca == [b |-> s1.var_model_, c |-> s1.var_cov_, nfft |-> s1.nfft_]
              IN  IF Fails(fail, "Connectivity", 1)
                    THEN Outcome(s1, Raise(ComputationError, "Connectivity"),
                                 <<Call("var.fit", a, TRUE),
                                   Call("Connectivity", Brief(ca), FALSE)>>)
                  ELSE Outcome([s1 EXCEPT !.connectivity_ =
                                    Connectivity(ca.b, ca.c, ca.nfft)],
                               Ok(None),
                               <<Call("var.fit", a, TRUE),
                                 Call("Connectivity", Brief(ca), TRUE)>>)
    ELSE
      LET a == [data |-> s.activations_.shape, cl |-> s.cl_, P |-> s.var_order_,
                delta |-> s.var_delta_]
      IN  IF Fails(fail, "fit", 1)
            THEN Outcome(s, Raise(ComputationError, "var.fit_multiclass"),
                         <<Call("var.fit_multiclass", a, FALSE)>>)
          ELSE
            LET r  == var_fit_multiclass(s.activations_, s.cl_, s.var_order_,
                                         s.var_delta_)
                s1 == [s EXCEPT !.var_model_ = r.B, !.var_cov_ = r.C,
                                !.connectivity_ = EmptyDict]
            IN  fitVAR_loop(s1, unique(s1.cl_), 1, fail,
                            <<Call("var.fit_multiclass", a, TRUE)>>)

\* the loop `for c in np.unique(self.cl_): result[c] = getattr(...)()` of
\* getConnectivity, from position k of the label sequence on
RECURSIVE getConnectivity_loop(_, _, _, _, _)
getConnectivity_loop(s, labels, k, measure, result) ==
    IF k > Len(labels) THEN Outcome(s, Ok(result), <<>>)
    ELSE
      LET c == labels[k]
      IN  IF c \notin Keys(s.connectivity_)
            THEN Outcome(s, Raise("KeyError", "connectivity_[c]"), <<>>)
          ELSE IF ~hasattr(s.connectivity_.items[c], measure)
            THEN Outcome(s, Raise(UnsupportedMeasureError, measure), <<>>)
          ELSE getConnectivity_loop(s, labels, k + 1, measure,
                   DictSet(result, c, Evaluate(s.connectivity_.items[c], measure)))

\* getConnectivity as it would be if it tested var_model_ instead of
\* connectivity_: looking a measure up on None is an AttributeError
getConnectivity_testsModel(s, measure) ==
    IF s.var_model_ = None
      THEN Outcome(s, Raise(PreconditionError, "Connectivity requires a VAR model"), <<>>)
    ELSE IF s.connectivity_ = None
      THEN Outcome(s, Raise("AttributeError", measure), <<>>)
    ELSE IF IsDict(s.connectivity_)
      THEN getConnectivity_loop(s, unique(s.cl_), 1, measure, EmptyDict)
    ELSE IF ~hasattr(s.connectivity_, measure)
      THEN Outcome(s, Raise(UnsupportedMeasureError, measure), <<>>)
    ELSE Outcome(s, Ok(Evaluate(s.connectivity_, measure)), <<>>)

\* getConnectivity as it would be if evaluating a measure used up the single
\* Connectivity Model
getConnectivity_consumes(s, measure) ==
    IF s.connectivity_ = None
      THEN Outcome(s, Raise(PreconditionError, "Connectivity requires a VAR model"), <<>>)
    ELSE IF IsDict(s.connectivity_)
      THEN getConnectivity_loop(s, unique(s.cl_), 1, measure, EmptyDict)
    ELSE IF ~hasattr(s.connectivity_, measure)
      THEN Outcome(s, Raise(UnsupportedMeasureError, measure), <<>>)
    ELSE Outcome([s EXCEPT !.connectivity_ = None],
                 Ok(Evaluate(s.connectivity_, measure)), <<>>)

\* SCoT.getConnectivity
getConnectivity(s, measure) ==
    IF s.connectivity_ = None
      THEN Outcome(s, Raise(PreconditionError, "Connectivity requires a VAR model"), <<>>)
    ELSE IF IsDict(s.connectivity_)
      THEN getConnectivity_loop(s, unique(s.cl_), 1, measure, EmptyDict)
    ELSE IF ~hasattr(s.connectivity_, measure)
      THEN Outcome(s, Raise(UnsupportedMeasureError, measure), <<>>)
    ELSE Outcome(s, Ok(Evaluate(s.connectivity_, measure)), <<>>)

-----------------------------------------------------------------------------
(* SCoT.getTFConnectivity *)

\* np.zeros((M, M, Nstep, nfft), np.complex64), seen along its window axis:
\* slot i, 0 <= i < Nstep, holds one (M, M, nfft) block
zeros(M, Nstep, nfft) ==
    [rep |-> "ndarray", shape |-> <<M, M, Nstep, nfft>>, dtype |-> "complex64",
     win |-> [i \in 0..(Nstep - 1) |-> 0]]

\* result[:,:,i,:] = v is possible only for a slot of the window axis
CanStore(result, i) == i \in DOMAIN result.win

\* numpy converts what is assigned into an array to the array's element type
astype(v, dtype) == [v EXCEPT !.dtype = dtype]

Store(result, i, v) == [result EXCEPT !.win[i] = astype(v, result.dtype)]

RECURSIVE getTF_loop(_, _, _, _, _, _)

\* the loop of the branch without class labels as it would be if a failed
\* window fit ended the loop and the slots filled so far were returned
getTF_loop_returnsPartial(s, q, starts, i, result, log) ==
    IF starts = <<>> THEN Outcome(s, Ok(result), log)
    ELSE
      LET n    == Head(starts)
          data == TakeWindow(s.activations_, n, q.winlen)
          a    == [win |-> arange(q.winlen, n), data |-> data.shape,
                   P |-> s.var_order_, delta |-> s.var_delta_]
      IN  IF Fails(q.fail, "fit", i + 1)
            THEN Outcome(s, Ok(result), Append(log, Call("var.fit", a, FALSE)))
          ELSE
            LET r    == var_fit(data, s.var_order_, s.var_delta_)
                ca   == [b |-> r.B, c |-> r.C, nfft |-> s.nfft_]
                log1 == Append(log, Call("var.fit", a, TRUE))
            IN  IF Fails(q.fail, "Connectivity", i + 1)
                  THEN Outcome(s, Raise(ComputationError, "Connectivity"),
                               Append(log1, Call("Connectivity", Brief(ca), FALSE)))
                ELSE
                  LET con  == Connectivity(r.B, r.C, s.nfft_)
                      log2 == Append(log1, Call("Connectivity", Brief(ca), TRUE))
                      sa   == [slot |-> i, start |-> n, label |-> None]
                  IN  IF ~hasattr(con, q.measure)
                        THEN Outcome(s, Raise(UnsupportedMeasureError, q.measure), log2)
                      ELSE IF ~CanStore(result, i)
                        THEN Outcome(s, Raise("IndexError", "window axis"),
                                     Append(log2, Call("store", sa, FALSE)))
                      ELSE getTF_loop(s, q, Tail(starts), i + 1,
                                      Store(result, i, Evaluate(con, q.measure)),
                                      Append(log2, Call("store", sa, TRUE)))

\* the loop of the branch without class labels as it would be if each
\* window's models were kept in the object, as fitVAR keeps them
getTF_loop_keepsModels(s, q, starts, i, result, log) ==
    IF starts = <<>> THEN Outcome(s, Ok(result), log)
    ELSE
      LET n    == Head(starts)
          data == TakeWindow(s.activations_, n, q.winlen)
          a    == [win |-> arange(q.winlen, n), data |-> data.shape,
                   P |-> s.var_order_, delta |-> s.var_delta_]
      IN  IF Fails(q.fail, "fit", i + 1)
            THEN Outcome(s, Raise(ComputationError, "var.fit"),
                         Append(log, Call("var.fit", a, FALSE)))
          ELSE
            LET r    == var_fit(data, s.var_order_, s.var_delta_)
                ca   == [b |-> r.B, c |-> r.C, nfft |-> s.nfft_]
                log1 == Append(log, Call("var.fit", a, TRUE))
            IN  IF Fails(q.fail, "Connectivity", i + 1)
                  THEN Outcome(s, Raise(ComputationError, "Connectivity"),
                               Append(log1, Call("Connectivity", Brief(ca), FALSE)))
                ELSE
                  LET con  == Connectivity(r.B, r.C, s.nfft_)
                      log2 == Append(log1, Call("Connectivity", Brief(ca), TRUE))
                      sa   == [slot |-> i, start |-> n, label |-> None]
                  IN  IF ~hasattr(con, q.measure)
                        THEN Outcome(s, Raise(UnsupportedMeasureError, q.measure), log2)
                      ELSE IF ~CanStore(result, i)
                        THEN Outcome(s, Raise("IndexError", "window axis"),
                                     Append(log2, Call("store", sa, FALSE)))
                      ELSE getTF_loop([s EXCEPT !.var_model_ = r.B, !.var_cov_ = r.C,
                                                !.connectivity_ = con],
                                      q, Tail(starts), i + 1,
                                      Store(result, i, Evaluate(con, q.measure)),
                                      Append(log2, Call("store", sa, TRUE)))

\* the loop `for n in range(0, N-winlen, winstep)` of the branch without
\* class labels; q carries measure, winlen and the remaining start offsets
getTF_loop(s, q, starts, i, result, log) ==
    IF starts = <<>> THEN Outcome(s, Ok(result), log)
    ELSE
      LET n    == Head(starts)
          data == TakeWindow(s.activations_, n, q.winlen)
          a    == [win |-> arange(q.winlen, n), data |-> data.shape,
                   P |-> s.var_order_, delta |-> s.var_delta_]
      IN  IF Fails(q.fail, "fit", i + 1)
            THEN Outcome(s, Raise(ComputationError, "var.fit"),
                         Append(log, Call("var.fit", a, FALSE)))
          ELSE
            LET r    == var_fit(data, s.var_order_, s.var_delta_)
                ca   == [b |-> r.B, c |-> r.C, nfft |-> s.nfft_]
                log1 == Append(log, Call("var.fit", a, TRUE))
            IN  IF Fails(q.fail, "Connectivity", i + 1)
                  THEN Outcome(s, Raise(ComputationError, "Connectivity"),
                               Append(log1, Call("Connectivity", Brief(ca), FALSE)))
                ELSE
                  LET con  == Connectivity(r.B, r.C, s.nfft_)
                      log2 == Append(log1, Call("Connectivity", Brief(ca), TRUE))
                      sa   == [slot |-> i, start |-> n, label |-> None]
                  IN  IF ~hasattr(con, q.measure)
                        THEN Outcome(s, Raise(UnsupportedMeasureError, q.measure), log2)
                      ELSE IF ~CanStore(result, i)
                        THEN Outcome(s, Raise("IndexError", "window axis"),
                                     Append(log2, Call("store", sa, FALSE)))
                      ELSE getTF_loop(s, q, Tail(starts), i + 1,
                                      Store(result, i, Evaluate(con, q.measure)),
                                      Append(log2, Call("store", sa, TRUE)))

\* the inner loop `for c in np.unique(self.cl_)` of one window (slot i,
\* start n) of the class branch, from position k of the label sequence on;
\* BC is the window's fit
RECURSIVE getTF_labels(_, _, _, _, _, _, _)
getTF_labels(s, q, w, BC, k, result, log) ==
    IF k > Len(q.labels) THEN Outcome(s, Ok(result), log)
    ELSE
      LET c  == q.labels[k]
          ca == [b |-> BC.B.items[c], c |-> BC.C.items[c], nfft |-> s.nfft_]
          sa == [slot |-> w.i, start |-> w.n, label |-> c]
      IN  IF Fails(q.fail, "Connectivity", w.i * Len(q.labels) + k)
            THEN Outcome(s, Raise(ComputationError, "Connectivity"),
                         Append(log, Call("Connectivity", Brief(ca), FALSE)))
          ELSE
            LET con  == Connectivity(ca.b, ca.c, ca.nfft)
                log1 == Append(log, Call("Connectivity", Brief(ca), TRUE))
            IN  IF ~hasattr(con, q.measure)
                  THEN Outcome(s, Raise(UnsupportedMeasureError, q.measure), log1)
                ELSE IF ~CanStore(result.items[c], w.i)
                  THEN Outcome(s, Raise("IndexError", "window axis"),
                               Append(log1, Call("store", sa, FALSE)))
                ELSE getTF_labels(s, q, w, BC, k + 1,
                         DictSet(result, c,
                                 Store(result.items[c], w.i, Evaluate(con, q.measure))),
                         Append(log1, Call("store", sa, TRUE)))

RECURSIVE getTF_loop_cl(_, _, _, _, _, _)

\* the loop `for n in range(0, N-winlen, winstep)` of the class branch
getTF_loop_cl(s, q, starts, i, result, log) ==
    IF starts = <<>> THEN Outcome(s, Ok(result), log)
    ELSE
      LET n    == Head(starts)
          data == TakeWindow(s.activations_, n, q.winlen)
          a    == [win |-> arange(q.winlen, n), data |-> data.shape, cl |-> s.cl_,
                   P |-> s.var_order_, delta |-> s.var_delta_]
      IN  IF Fails(q.fail, "fit", i + 1)
            THEN Outcome(s, Raise(ComputationError, "var.fit_multiclass"),
                         Append(log, Call("var.fit_multiclass", a, FALSE)))
          ELSE
            LET BC  == var_fit_multiclass(data, s.cl_, s.var_order_, s.var_delta_)
                one == getTF_labels(s, q, [i |-> i, n |-> n], BC, 1, result,
                                    Append(log, Call("var.fit_multiclass", a, TRUE)))
            IN  IF one.ret.kind # "ok" THEN one
                ELSE getTF_loop_cl(s, q, Tail(starts), i + 1, one.ret.value, one.calls)

getTFConnectivity(s, measure, winlen, winstep, fail) ==
    IF s.activations_ = None
      THEN Outcome(s, Raise(PreconditionError,
                            "Time/Frequency Connectivity requires activations"), <<>>)
    ELSE
      LET N      == s.activations_.shape[1]
          M      == s.activations_.shape[2]
          T      == s.activations_.shape[3]
          Nstep  == (N - winlen) \div winstep
          labels == unique(s.cl_)
          q      == [measure |-> measure, winlen |-> winlen, fail |-> fail,
                     labels |-> labels]
      IN  IF s.cl_ = None
            THEN IF Nstep < 0
                   THEN Outcome(s, Raise("ValueError", "negative dimensions"), <<>>)
                 ELSE getTF_loop(s, q, range(N - winlen, winstep), 0,
                                 zeros(M, Nstep, s.nfft_), <<>>)
          ELSE IF Nstep < 0 /\ Len(labels) > 0
            THEN Outcome(s, Raise("ValueError", "negative dimensions"), <<>>)
          ELSE getTF_loop_cl(s, q, range(N - winlen, winstep), 0,
                             [rep |-> "dict",
                              items |-> [c \in SeqToSet(labels) |->
                                            zeros(M, Nstep, s.nfft_)]],
                             <<>>)

-----------------------------------------------------------------------------
(* SCoT.preparePlots *)

\* the loops that fill mixmaps_ / unmixmaps_: one map per row of mixing_,
\* one per column of unmixing_
MixMaps(s) ==
    [i \in 1..s.mixing_.shape[1] |-> TopoMap(s.locations_, Row(s.mixing_, i - 1))]

UnmixMaps(s) ==
    [i \in 1..s.unmixing_.shape[2] |-> TopoMap(s.locations_, Col(s.unmixing_, i - 1))]

\* preparePlots as it would be if it made the Topoplot object before it
\* tested for sensor locations
preparePlots_topoFirst(s, mixing, unmixing) ==
    IF s.locations_ = None
      THEN IF s.topo_ = None
             THEN Outcome([s EXCEPT !.topo_ = Topoplot(s.locations_)],
                          Raise(PreconditionError, "Need sensor locations for plotting"),
                          <<Call("Topoplot", s.locations_, TRUE)>>)
             ELSE Outcome(s, Raise(PreconditionError,
                                   "Need sensor locations for plotting"), <<>>)
    ELSE
      LET s1 == IF s.topo_ = None
                  THEN [s EXCEPT !.topo_ = Topoplot(s.locations_)]
                  ELSE s
          log1 == IF s.topo_ = None THEN <<Call("Topoplot", s.locations_, TRUE)>>
                  ELSE <<>>
      IN  IF mixing /\ s1.mixmaps_ = <<>> /\ s1.mixing_ = None
            THEN Outcome(s1, Raise("AttributeError", "mixing_.shape"), log1)
          ELSE
            LET s2 == IF mixing /\ s1.mixmaps_ = <<>>
                        THEN [s1 EXCEPT !.mixmaps_ = MixMaps(s1)]
                        ELSE s1
                log2 == IF mixing /\ s1.mixmaps_ = <<>>
                          THEN log1 \o [i \in 1..Len(s2.mixmaps_) |->
                                          Call("create_map", s2.mixmaps_[i].values, TRUE)]
                          ELSE log1
            IN  IF unmixing /\ s2.unmixmaps_ = <<>> /\ s2.unmixing_ = None
                  THEN Outcome(s2, Raise("AttributeError", "unmixing_.shape"), log2)
                ELSE IF unmixing /\ s2.unmixmaps_ = <<>>
                  THEN LET s3 == [s2 EXCEPT !.unmixmaps_ = UnmixMaps(s2)]
                       IN  Outcome(s3, Ok(None),
                                   log2 \o [i \in 1..Len(s3.unmixmaps_) |->
                                              Call("create_map", s3.unmixmaps_[i].values, TRUE)])
                ELSE Outcome(s2, Ok(None), log2)

\* SCoT.preparePlots
preparePlots(s, mixing, unmixing) ==
    IF s.locations_ = None
      THEN Outcome(s, Raise(PreconditionError, "Need sensor locations for plotting"), <<>>)
    ELSE
      LET s1 == IF s.topo_ = None
                  THEN [s EXCEPT !.topo_ = Topoplot(s.locations_)]
                  ELSE s
          log1 == IF s.topo_ = None THEN <<Call("Topoplot", s.locations_, TRUE)>>
                  ELSE <<>>
      IN  IF mixing /\ s1.mixmaps_ = <<>> /\ s1.mixing_ = None
            THEN Outcome(s1, Raise("AttributeError", "mixing_.shape"), log1)
          ELSE
            LET s2 == IF mixing /\ s1.mixmaps_ = <<>>
                        THEN [s1 EXCEPT !.mixmaps_ = MixMaps(s1)]
                        ELSE s1
                log2 == IF mixing /\ s1.mixmaps_ = <<>>
                          THEN log1 \o [i \in 1..Len(s2.mixmaps_) |->
                                          Call("create_map", s2.mixmaps_[i].values, TRUE)]
                          ELSE log1
            IN  IF unmixing /\ s2.unmixmaps_ = <<>> /\ s2.unmixing_ = None
                  THEN Outcome(s2, Raise("AttributeError", "unmixing_.shape"), log2)
                ELSE IF unmixing /\ s2.unmixmaps_ = <<>>
                  THEN LET s3 == [s2 EXCEPT !.unmixmaps_ = UnmixMaps(s2)]
                       IN  Outcome(s3, Ok(None),
                                   log2 \o [i \in 1..Len(s3.unmixmaps_) |->
                                              Call("create_map", s3.unmixmaps_[i].values, TRUE)])
                ELSE Outcome(s2, Ok(None), log2)

-----------------------------------------------------------------------------
(* Inputs *)

\* largest index of a collaborator invocation that is made to raise
MaxFailIdx == 2

\* recordings handed to setData, with class labels (one per trial) or
\* without: a 3-D recording (samples, channels, trials) and a short 2-D one
\* (samples, channels), both of the same channels
Recording ==
    ndarray(<<5, 2, 2>>,
            [n \in 1..5 |-> [m \in 1..2 |-> [t \in 1..2 |-> (n + 2 * m + t) % 3]]])

ShortRecording ==
    ndarray(<<2, 2>>, [n \in 1..2 |-> [m \in 1..2 |-> n * m]])

ClInputs == {None, Labels(<<2, 1>>)}

SetDataInputs ==
    {[data |-> Recording, cl |-> c] : c \in ClInputs}
    \cup {[data |-> ShortRecording, cl |-> None]}

MeasureInputs == {"dtf", "bogus"}

\* the distinct outcomes the source separator may produce for one input
Seeds == {1, 2}

FailInputs(fns, n) == {NoFail} \cup {[fn |-> f, idx |-> i] : f \in fns, i \in 1..n}

\* constructor arguments (var_order, var_delta, locations, reducedim, nfft,
\* backend) of the instances examined
Montage == [rep |-> "locations", system |-> "10-20"]

Constructions ==
    { [var_order |-> 2, var_delta |-> None, locations |-> Montage,
       reducedim |-> Rat(99, 100), nfft |-> 2, backend |-> None],
      [var_order |-> 2, var_delta |-> Rat(1, 1), locations |-> None,
       reducedim |-> Rat(1, 1), nfft |-> 2, backend |-> None],
      [var_order |-> 1, var_delta |-> None, locations |-> Montage,
       reducedim |-> Rat(2, 1), nfft |-> 4, backend |-> None] }

-----------------------------------------------------------------------------
(* The object as a state machine *)

Self ==
    [data_ |-> data_, cl_ |-> cl_, unmixing_ |-> unmixing_, mixing_ |-> mixing_,
     activations_ |-> activations_, var_model_ |-> var_model_,
     var_cov_ |-> var_cov_, var_order_ |-> var_order_, var_delta_ |-> var_delta_,
     connectivity_ |-> connectivity_, locations_ |-> locations_,
     reducedim_ |-> reducedim_, nfft_ |-> nfft_, backend_ |-> backend_,
     topo_ |-> topo_, mixmaps_ |-> mixmaps_, unmixmaps_ |-> unmixmaps_]

Becomes(s) ==
    /\ data_' = s.data_
    /\ cl_' = s.cl_
    /\ unmixing_' = s.unmixing_
    /\ mixing_' = s.mixing_
    /\ activations_' = s.activations_
    /\ var_model_' = s.var_model_
    /\ var_cov_' = s.var_cov_
    /\ var_order_' = s.var_order_
    /\ var_delta_' = s.var_delta_
    /\ connectivity_' = s.connectivity_
    /\ locations_' = s.locations_
    /\ reducedim_' = s.reducedim_
    /\ nfft_' = s.nfft_
    /\ backend_' = s.backend_
    /\ topo_' = s.topo_
    /\ mixmaps_' = s.mixmaps_
    /\ unmixmaps_' = s.unmixmaps_

\* which method last completed a fit since the data were last set
OriginAfter(op, kind) ==
    IF op = "setData" THEN "none"
    ELSE IF op \in {"doMVARICA", "fitVAR"} /\ kind = "ok" THEN op
    ELSE origin

\* one method call: the object becomes out.s, and the call, its arguments,
\* its outcome and the object as it was before the call are remembered
Apply(op, a, out) ==
    \E o \in {out} :
        /\ Becomes(o.s)
        /\ lastOp' = op
        /\ args' = a
        /\ ret' = o.ret
        /\ calls' = o.calls
        /\ pre' = Self
        /\ origin' = OriginAfter(op, o.ret.kind)

Init ==
    /\ \E k \in Constructions :
          LET s == SCoT(k.var_order, k.var_delta, k.locations, k.reducedim,
                        k.nfft, k.backend)
          IN  /\ data_ = s.data_
              /\ cl_ = s.cl_
              /\ unmixing_ = s.unmixing_
              /\ mixing_ = s.mixing_
              /\ activations_ = s.activations_
              /\ var_model_ = s.var_model_
              /\ var_cov_ = s.var_cov_
              /\ var_order_ = s.var_order_
              /\ var_delta_ = s.var_delta_
              /\ connectivity_ = s.connectivity_
              /\ locations_ = s.locations_
              /\ reducedim_ = s.reducedim_
              /\ nfft_ = s.nfft_
              /\ backend_ = s.backend_
              /\ topo_ = s.topo_
              /\ mixmaps_ = s.mixmaps_
              /\ unmixmaps_ = s.unmixmaps_
              /\ pre = s
    /\ lastOp = "__init__"
    /\ args = <<>>
    /\ ret = Ok(None)
    /\ calls = <<>>
    /\ origin = "none"

SetData ==
    \E a \in SetDataInputs :
        Apply("setData", a, setData(Self, a.data, a.cl))

DoMVARICA ==
    \E seed \in Seeds, fail \in FailInputs({"mvarica", "Connectivity"}, 1) :
        Apply("doMVARICA", [seed |-> seed, fail |-> fail],
              doMVARICA(Self, seed, fail))

FitVAR ==
    \E fail \in FailInputs({"fit"}, 1) \cup FailInputs({"Connectivity"}, MaxFailIdx) :
        Apply("fitVAR", [fail |-> fail], fitVAR(Self, fail))

GetConnectivity ==
    \E m \in MeasureInputs :
        Apply("getConnectivity", [measure |-> m], getConnectivity(Self, m))

GetTFConnectivity ==
    \E m \in MeasureInputs, winlen \in 1..MaxWin, winstep \in 1..MaxStep,
       fail \in FailInputs({"fit"}, MaxFailIdx) \cup FailInputs({"Connectivity"}, 1) :
        Apply("getTFConnectivity",
              [measure |-> m, winlen |-> winlen, winstep |-> winstep, fail |-> fail],
              getTFConnectivity(Self, m, winlen, winstep, fail))

PreparePlots ==
    \E mixing \in BOOLEAN, unmixing \in BOOLEAN :
        Apply("preparePlots", [mixing |-> mixing, unmixing |-> unmixing],
              preparePlots(Self, mixing, unmixing))

\* the data and model life cycle
Next ==
    \/ SetData
    \/ DoMVARICA
    \/ FitVAR
    \/ GetConnectivity

Spec == Init /\ [][Next]_vars

\* the sliding-window query on the activations the life cycle provides
NextTF ==
    \/ SetData
    \/ DoMVARICA
    \/ GetTFConnectivity

SpecTF == Init /\ [][NextTF]_vars

\* the scalp-map cache
NextPlots ==
    \/ SetData
    \/ DoMVARICA
    \/ PreparePlots

SpecPlots == Init /\ [][NextPlots]_vars

\* every method, on the instances constructed without sensor locations
InitAll == Init /\ locations_ = None

NextAll ==
    \/ SetData
    \/ DoMVARICA
    \/ FitVAR
    \/ GetConnectivity
    \/ GetTFConnectivity
    \/ PreparePlots

SpecAll == InitAll /\ [][NextAll]_vars

-----------------------------------------------------------------------------
(* Properties *)

Absent(x) == x = None

IsSingleModel(x) == x.rep = "var"

IsSingleConnectivity(x) == x.rep = "Connectivity"

\* C1 - Invalidation: right after a setData call, whatever the arguments and
\* whatever was held before, there is no AR Model, no Noise Covariance and
\* no Connectivity Model.
C1_Invalidation ==
    lastOp = "setData" =>
        /\ Absent(var_model_)
        /\ Absent(var_cov_)
        /\ Absent(connectivity_)

\* setData has just returned on an object that held class-mapped models
C1_Witness ==
    /\ lastOp = "setData"
    /\ ret.kind = "ok"
    /\ IsDict(pre.var_model_)
    /\ IsDict(pre.var_cov_)
    /\ IsDict(pre.connectivity_)
    /\ Keys(pre.connectivity_) # {}

\* setData has just returned on an object that held single models
C1_WitnessSingle ==
    /\ lastOp = "setData"
    /\ ret.kind = "ok"
    /\ IsSingleModel(pre.var_model_)
    /\ IsSingleConnectivity(pre.connectivity_)

\* C3 - Activations coherence: whenever activations_ is present it is the
\* projection of the stored data_ through the stored unmixing_.
C3_ActivationsCoherent ==
    ~Absent(activations_) =>
        /\ ~Absent(data_)
        /\ ~Absent(unmixing_)
        /\ activations_ = dot_special(data_, unmixing_)

\* the three derived artifacts agree in representation, and when mapped
\* they are keyed by exactly the distinct class labels
AllSingle ==
    /\ IsSingleModel(var_model_)
    /\ IsSingleModel(var_cov_)
    /\ IsSingleConnectivity(connectivity_)

AllMapped ==
    /\ IsDict(var_model_)
    /\ IsDict(var_cov_)
    /\ IsDict(connectivity_)
    /\ ~Absent(cl_)
    /\ Keys(var_model_) = SeqToSet(unique(cl_))
    /\ Keys(var_cov_) = SeqToSet(unique(cl_))
    /\ Keys(connectivity_) = SeqToSet(unique(cl_))

\* C4 - Mode consistency: from a successful doMVARICA or fitVAR up to the
\* next setData, AR Model, Noise Covariance and Connectivity Model are all
\* single or all mapped over the distinct class labels.
C4_ModeConsistency ==
    origin # "none" => (AllSingle \/ AllMapped)

\* C5 - Precondition ordering: doMVARICA without data, fitVAR and
\* getTFConnectivity without activations, and getConnectivity without a
\* Connectivity Model all fail with a PreconditionError.
C5_PreconditionOrdering ==
    /\ (lastOp = "doMVARICA" /\ Absent(pre.data_)
            => ret.kind = PreconditionError)
    /\ (lastOp \in {"fitVAR", "getTFConnectivity"} /\ Absent(pre.activations_)
            => ret.kind = PreconditionError)
    /\ (lastOp = "getConnectivity" /\ Absent(pre.connectivity_)
            => ret.kind = PreconditionError)

\* getConnectivity has just been refused on an object whose models were
\* cleared by setData after a fit had been made
C5_Witness ==
    /\ lastOp = "getConnectivity"
    /\ ret.kind = PreconditionError
    /\ ~Absent(data_)
    /\ ~Absent(activations_)
    /\ Absent(connectivity_)

\* fitVAR has just been refused on an object with data but no unmixing
C5_WitnessFit ==
    /\ lastOp = "fitVAR"
    /\ ret.kind = PreconditionError
    /\ ~Absent(data_)
    /\ Absent(unmixing_)

\* getTFConnectivity has just been refused before any data was set
C5_WitnessTF ==
    /\ lastOp = "getTFConnectivity"
    /\ ret.kind = PreconditionError
    /\ Absent(data_)

\* doMVARICA has just been refused
C5_WitnessDecompose ==
    /\ lastOp = "doMVARICA"
    /\ ret.kind = PreconditionError

\* C6 - Auto-reprojection: when an unmixing_ is held, setData(d) leaves
\* activations_ with the time and trial extents of d and one column per
\* component, each element the product of d's channel row with the
\* component's column of the stored unmixing_.
C6_AutoReprojection ==
    lastOp = "setData" /\ ~Absent(pre.unmixing_) =>
        LET d == atleast_3d(args.data)
            U == pre.unmixing_
        IN  /\ unmixing_ = U
            /\ data_ = d
            /\ ~Absent(activations_)
            /\ activations_.shape = <<d.shape[1], U.shape[2], d.shape[3]>>
            /\ \A n \in 1..d.shape[1], k \in 1..U.shape[2], x \in 1..d.shape[3] :
                  activations_.at[n][k][x] =
                      SumOver(1..d.shape[2],
                              [m \in 1..d.shape[2] |-> d.at[n][m][x] * U.at[m][k]])

\* setData has just replaced activations that came from other data
C6_Witness ==
    /\ lastOp = "setData"
    /\ ~Absent(pre.unmixing_)
    /\ ~Absent(pre.activations_)
    /\ pre.data_ # data_
    /\ pre.activations_ # activations_

\* C7 - No mismatched representation after a failure: when doMVARICA or
\* fitVAR is aborted by a collaborator, var_model_ and connectivity_ are not
\* left one single and the other class-mapped.
C7_NoMismatchAfterFailure ==
    lastOp \in {"doMVARICA", "fitVAR"} /\ ret.kind = ComputationError =>
        ~ \/ (IsSingleModel(var_model_) /\ IsDict(connectivity_))
          \/ (IsDict(var_model_) /\ IsSingleConnectivity(connectivity_))

\* C8 - Pooled decomposition: doMVARICA does the same whatever the class
\* labels are; after it succeeds the three artifacts are single instances,
\* and the getConnectivity that follows returns a single result.
C8_PooledDecomposition ==
    /\ (lastOp = "doMVARICA" /\ ret.kind = "ok" => AllSingle)
    /\ \A c \in ClInputs, seed \in Seeds,
          fail \in FailInputs({"mvarica", "Connectivity"}, 1) :
          LET with    == doMVARICA([Self EXCEPT !.cl_ = c], seed, fail)
              without == doMVARICA(Self, seed, fail)
          IN  /\ with.ret = without.ret
              /\ with.calls = without.calls
              /\ with.s = [without.s EXCEPT !.cl_ = c]
    /\ (lastOp = "getConnectivity" /\ origin = "doMVARICA" /\ ret.kind = "ok"
            => ret.value.rep = "measure")

\* getConnectivity has just returned after a decomposition of labelled data
C8_Witness ==
    /\ lastOp = "getConnectivity"
    /\ origin = "doMVARICA"
    /\ ret.kind = "ok"
    /\ ~Absent(cl_)

\* the collaborator invocations of the last call that satisfy Keep
Select(Keep(_)) == SelectSeq(calls, Keep)

IsFit(c) == c.fn \in {"var.fit", "var.fit_multiclass"}

IsStore(c) == c.fn = "store"

\* C2 - Sliding-window slot accounting: with winstep >= 1 and N >= winlen,
\* and no collaborator failing, getTFConnectivity fits exactly
\* Nstep = floor((N - winlen) / winstep) windows, stores each in its own slot
\* i, 0 <= i < Nstep, of an output with Nstep slots, and returns (also when
\* Nstep = 0).
C2_SlotAccounting ==
    ( /\ lastOp = "getTFConnectivity"
      /\ ~Absent(pre.activations_)
      /\ args.fail = NoFail
      /\ args.measure \in Measures
      /\ args.winstep >= 1
      /\ pre.activations_.shape[1] >= args.winlen ) =>
        LET N      == pre.activations_.shape[1]
            Nstep  == (N - args.winlen) \div args.winstep
            stores == Select(IsStore)
        IN  /\ ret.kind = "ok"
            /\ Len(Select(IsFit)) = Nstep
            /\ \A j \in 1..Len(stores) :
                  /\ stores[j].ok
                  /\ stores[j].args.slot \in 0..(Nstep - 1)
            /\ \A j, k \in 1..Len(stores) :
                  (j # k /\ stores[j].args.label = stores[k].args.label)
                      => stores[j].args.slot # stores[k].args.slot
            /\ IF IsDict(ret.value)
                 THEN \A c \in Keys(ret.value) : ret.value.items[c].shape[3] = Nstep
                 ELSE ret.value.shape[3] = Nstep

\* C9 - Topology cache coherence: cached scalp maps, when present, are the
\* maps of the mixing_ / unmixing_ now held, and preparePlots leaves maps
\* that are present as they are.
C9_TopologyCacheCoherent ==
    /\ (mixmaps_ # <<>> => ~Absent(mixing_) /\ mixmaps_ = MixMaps(Self))
    /\ (unmixmaps_ # <<>> => ~Absent(unmixing_) /\ unmixmaps_ = UnmixMaps(Self))
    /\ (lastOp = "preparePlots" /\ pre.mixmaps_ # <<>> => mixmaps_ = pre.mixmaps_)
    /\ (lastOp = "preparePlots" /\ pre.unmixmaps_ # <<>> => unmixmaps_ = pre.unmixmaps_)

\* C10 - Sliding-window failure is fatal and total: when the AR fit of a
\* window fails, getTFConnectivity fails with that error, hands nothing to
\* the caller, and makes no further invocation: the failed fit is the last
\* thing it did and that window was fitted once.
C10_WindowFailureFatal ==
    ( /\ lastOp = "getTFConnectivity"
      /\ \E j \in 1..Len(calls) : IsFit(calls[j]) /\ ~calls[j].ok ) =>
        /\ ret.kind = ComputationError
        /\ ret.value = None
        /\ IsFit(calls[Len(calls)]) /\ ~calls[Len(calls)].ok
        /\ Len(Select(IsFit)) = args.fail.idx
        /\ \A j \in 1..(Len(calls) - 1) : calls[j].ok

\* the fit of the second window has just failed after the first window's
\* slot had been filled
C10_Witness ==
    /\ lastOp = "getTFConnectivity"
    /\ ret.kind = ComputationError
    /\ args.fail = [fn |-> "fit", idx |-> 2]
    /\ \E j \in 1..Len(calls) : IsStore(calls[j]) /\ calls[j].ok

\* C11 - Window placement and truncation: the k-th window fitted starts at
\* sample (k-1) * winstep, is made of the winlen samples from there on, lies
\* inside the activations and starts before N - winlen; the window stored at
\* slot i starts at i * winstep; and in a returned result slot i was computed
\* from exactly the samples i*winstep .. i*winstep + winlen - 1.
C11_WindowPlacement ==
    (lastOp = "getTFConnectivity" /\ ~Absent(pre.activations_)) =>
        LET N      == pre.activations_.shape[1]
            winlen == args.winlen
            fits   == Select(IsFit)
            stores == Select(IsStore)
            Rows(i) == [j \in 1..winlen |-> pre.activations_.at[i * args.winstep + j]]
        IN  /\ \A k \in 1..Len(fits) :
                  LET n == (k - 1) * args.winstep
                  IN  /\ fits[k].args.win = [j \in 1..winlen |-> n + (j - 1)]
                      /\ fits[k].args.data[1] = winlen
                      /\ n < N - winlen
                      /\ n + winlen <= N
            /\ \A j \in 1..Len(stores) :
                  stores[j].args.start = stores[j].args.slot * args.winstep
            /\ ret.kind = "ok" =>
                  IF IsDict(ret.value)
                    THEN \A c \in Keys(ret.value) :
                           \A i \in DOMAIN ret.value.items[c].win :
                              ret.value.items[c].win[i].of.b.data.at = Rows(i)
                    ELSE \A i \in DOMAIN ret.value.win :
                           ret.value.win[i].of.b.data.at = Rows(i)

\* a sliding-window call has just returned two windows placed two samples
\* apart, with samples left over after the last one
C11_Witness ==
    /\ lastOp = "getTFConnectivity"
    /\ ret.kind = "ok"
    /\ args.winstep = 2
    /\ Len(Select(IsStore)) >= 2
    /\ 2 + args.winlen < pre.activations_.shape[1]

\* C12 - Window independence: every slot i of a returned sliding-window
\* result (of every label in the class case) is what fitVAR followed by
\* getConnectivity of the same measure returns on the same object holding, as
\* its activations, only the samples i*winstep .. i*winstep + winlen - 1.
C12_WindowIndependence ==
    (lastOp = "getTFConnectivity" /\ ret.kind = "ok") =>
        LET act == pre.activations_
            Slice(i) == ndarray(<<args.winlen, act.shape[2], act.shape[3]>>,
                                [j \in 1..args.winlen |-> act.at[i * args.winstep + j]])
            Fitted(i) == fitVAR([pre EXCEPT !.activations_ = Slice(i)], NoFail)
            Single(i) == getConnectivity(Fitted(i).s, args.measure)
        IN  IF IsDict(ret.value)
              THEN \A c \in Keys(ret.value) :
                     \A i \in DOMAIN ret.value.items[c].win :
                        /\ Single(i).ret.kind = "ok"
                        /\ ret.value.items[c].win[i] = Single(i).ret.value.items[c]
              ELSE \A i \in DOMAIN ret.value.win :
                     /\ Single(i).ret.kind = "ok"
                     /\ ret.value.win[i] = Single(i).ret.value

\* what does hold: every slot is the single-shot result on the window's
\* samples converted to the single-precision element type of the output
C12_EqualAfterConversion ==
    (lastOp = "getTFConnectivity" /\ ret.kind = "ok") =>
        LET act == pre.activations_
            Slice(i) == ndarray(<<args.winlen, act.shape[2], act.shape[3]>>,
                                [j \in 1..args.winlen |-> act.at[i * args.winstep + j]])
            Fitted(i) == fitVAR([pre EXCEPT !.activations_ = Slice(i)], NoFail)
            Single(i) == getConnectivity(Fitted(i).s, args.measure)
        IN  IF IsDict(ret.value)
              THEN \A c \in Keys(ret.value) :
                     \A i \in DOMAIN ret.value.items[c].win :
                        /\ Single(i).ret.kind = "ok"
                        /\ ret.value.items[c].win[i] =
                               astype(Single(i).ret.value.items[c], "complex64")
              ELSE \A i \in DOMAIN ret.value.win :
                     /\ Single(i).ret.kind = "ok"
                     /\ ret.value.win[i] = astype(Single(i).ret.value, "complex64")

\* a sliding-window call on labelled activations has just returned with a
\* second window in every label's result
C12_Witness ==
    /\ lastOp = "getTFConnectivity"
    /\ ret.kind = "ok"
    /\ ~Absent(pre.cl_)
    /\ IsDict(ret.value)
    /\ \A c \in SeqToSet(unique(pre.cl_)) : 1 \in DOMAIN ret.value.items[c].win

\* C13 - Unsupported measure in getConnectivity: when connectivity_ is
\* present, single or class-mapped, and the measure is not one the
\* Connectivity Model has, getConnectivity fails with an
\* UnsupportedMeasureError and hands nothing to the caller; when
\* connectivity_ is absent it fails with a PreconditionError whatever the
\* measure is.
C13_UnsupportedMeasure ==
    lastOp = "getConnectivity" =>
        /\ (~Absent(pre.connectivity_) /\ args.measure \notin Measures
               => ret.kind = UnsupportedMeasureError /\ ret.value = None)
        /\ (Absent(pre.connectivity_) => ret.kind = PreconditionError)

\* the Connectivity Model is whole: a single instance, or one instance for
\* every distinct class label
WholeConnectivity(s) ==
    \/ IsSingleConnectivity(s.connectivity_)
    \/ /\ IsDict(s.connectivity_)
       /\ ~Absent(s.cl_)
       /\ SeqToSet(unique(s.cl_)) \subseteq Keys(s.connectivity_)

\* what does hold: C13 on objects whose Connectivity Model is whole
C13_OnWholeModels ==
    (lastOp = "getConnectivity" /\ WholeConnectivity(pre)
        /\ args.measure \notin Measures)
        => ret.kind = UnsupportedMeasureError /\ ret.value = None

\* C14 - Dimensionality-reduction mode switch: every doMVARICA call that
\* finds data invokes the Source Separator, and with exactly one of
\* retain_variance and numcomp set: retain_variance is reducedim_ when
\* reducedim_ < 1, numcomp is reducedim_ when reducedim_ >= 1.
C14_ModeSwitch ==
    (lastOp = "doMVARICA" /\ ~Absent(pre.data_)) =>
        /\ Len(calls) >= 1
        /\ calls[1].fn = "mvarica"
        /\ \A j \in 2..Len(calls) : calls[j].fn # "mvarica"
        /\ LET rv == calls[1].args.retain_variance
               nc == calls[1].args.numcomp
               r  == pre.reducedim_
           IN  /\ (rv = None) # (nc = None)
               /\ (r.num < r.den  => rv = r /\ nc = None)
               /\ (r.num >= r.den => nc = r /\ rv = None)

\* a decomposition has just been made on an object configured with the
\* boundary value 1
C14_Witness ==
    /\ lastOp = "doMVARICA"
    /\ ret.kind = "ok"
    /\ pre.reducedim_ = Rat(1, 1)
    /\ calls[1].args.numcomp = Rat(1, 1)

\* a decomposition has just been made in the retained-variance mode
C14_WitnessVariance ==
    /\ lastOp = "doMVARICA"
    /\ ret.kind = "ok"
    /\ calls[1].args.retain_variance = Rat(99, 100)

\* C15 - Query round-trip: a getConnectivity call, returning or failing,
\* leaves every field of the object as it was, and a getConnectivity call that
\* directly follows one with the same measure has the same outcome.
C15_QueryRoundTrip ==
    /\ [](lastOp = "getConnectivity" => Self = pre)
    /\ [][(lastOp = "getConnectivity" /\ lastOp' = "getConnectivity"
             /\ args' = args) => ret' = ret]_vars

\* getConnectivity has just returned one result for each of the two class
\* labels
C15_Witness ==
    /\ lastOp = "getConnectivity"
    /\ ret.kind = "ok"
    /\ IsDict(ret.value)
    /\ Keys(ret.value) = {1, 2}
    /\ Self = pre

\* C16 - Precondition failures are atomic: when doMVARICA, fitVAR,
\* getConnectivity, getTFConnectivity or preparePlots fails with a
\* PreconditionError, no collaborator has been invoked and every field of
\* the object is as it was before the call.
C16_PreconditionAtomic ==
    ( /\ lastOp \in {"doMVARICA", "fitVAR", "getConnectivity",
                     "getTFConnectivity", "preparePlots"}
      /\ ret.kind = PreconditionError ) =>
        /\ calls = <<>>
        /\ Self = pre
        /\ ret.value = None

\* preparePlots has just been refused on an object that holds a
\* decomposition and has never made a Topoplot
C16_Witness ==
    /\ lastOp = "preparePlots"
    /\ ret.kind = PreconditionError
    /\ ~Absent(pre.mixing_)
    /\ Absent(pre.topo_)

\* fitVAR has just been refused on an object that holds data and class labels
C16_WitnessFit ==
    /\ lastOp = "fitVAR"
    /\ ret.kind = PreconditionError
    /\ ~Absent(pre.data_)
    /\ ~Absent(pre.cl_)

\* C17 - Connectivity freshness: a getConnectivity call returns a result
\* only if a doMVARICA or a fitVAR has succeeded since the data were last set,
\* and every model behind the result was fitted on the data or on the
\* activations the object holds now.
C17_ConnectivityFresh ==
    (lastOp = "getConnectivity" /\ ret.kind = "ok") =>
        /\ origin \in {"doMVARICA", "fitVAR"}
        /\ IF IsDict(ret.value)
             THEN \A c \in Keys(ret.value) :
                    ret.value.items[c].of.b.data = activations_
             ELSE ret.value.of.b.data \in {data_, activations_}

\* getConnectivity has just returned a result of a fitVAR, which was made on
\* data set after a decomposition
C17_Witness ==
    /\ lastOp = "getConnectivity"
    /\ ret.kind = "ok"
    /\ origin = "fitVAR"
    /\ ~Absent(unmixing_)

\* C18 - Decomposition does not produce activations: doMVARICA leaves
\* activations_ as it was; activations_ changes only in a setData made while
\* an unmixing_ is held; and while activations_ is absent, also after a
\* decomposition, fitVAR and getTFConnectivity fail with a PreconditionError.
C18_NoActivationsFromDecomposition ==
    /\ (lastOp = "doMVARICA" => activations_ = pre.activations_)
    /\ (activations_ # pre.activations_
            => lastOp = "setData" /\ ~Absent(pre.unmixing_))
    /\ (Absent(unmixing_) => Absent(activations_))
    /\ (lastOp \in {"fitVAR", "getTFConnectivity"} /\ Absent(pre.activations_)
            => ret.kind = PreconditionError /\ Absent(activations_))

\* fitVAR has just been refused on an object that holds data and the result
\* of a decomposition of them
C18_Witness ==
    /\ lastOp = "fitVAR"
    /\ ret.kind = PreconditionError
    /\ origin = "doMVARICA"
    /\ ~Absent(unmixing_)
    /\ ~Absent(connectivity_)

\* getTFConnectivity has just been refused after a decomposition
C18_WitnessTF ==
    /\ lastOp = "getTFConnectivity"
    /\ ret.kind = PreconditionError
    /\ origin = "doMVARICA"

\* C19 - Configuration and transform frame: setData, fitVAR,
\* getConnectivity and getTFConnectivity leave mixing_, unmixing_, var_order_
\* and var_delta_ as they were; mixing_, unmixing_ or var_delta_ differ after
\* a call only if the call was a doMVARICA that succeeded; mixing_ and
\* unmixing_ are both present or both absent; var_order_ and nfft_ never
\* change.
C19_TransformFrame ==
    /\ (lastOp \in {"setData", "fitVAR", "getConnectivity", "getTFConnectivity"}
          => /\ mixing_ = pre.mixing_
             /\ unmixing_ = pre.unmixing_
             /\ var_order_ = pre.var_order_
             /\ var_delta_ = pre.var_delta_)
    /\ ((mixing_ # pre.mixing_ \/ unmixing_ # pre.unmixing_
           \/ var_delta_ # pre.var_delta_)
          => lastOp = "doMVARICA" /\ ret.kind = "ok")
    /\ (Absent(mixing_) <=> Absent(unmixing_))
    /\ var_order_ = pre.var_order_
    /\ nfft_ = pre.nfft_

\* what does hold: the same with any doMVARICA that got its result from the
\* Source Separator in place of a doMVARICA that succeeded
C19_FrameButForAbortedDecomposition ==
    /\ (lastOp \in {"setData", "fitVAR", "getConnectivity", "getTFConnectivity",
                    "preparePlots"}
          => /\ mixing_ = pre.mixing_
             /\ unmixing_ = pre.unmixing_
             /\ var_order_ = pre.var_order_
             /\ var_delta_ = pre.var_delta_)
    /\ ((mixing_ # pre.mixing_ \/ unmixing_ # pre.unmixing_
           \/ var_delta_ # pre.var_delta_)
          => /\ lastOp = "doMVARICA"
             /\ Len(calls) >= 1
             /\ calls[1].fn = "mvarica" /\ calls[1].ok)
    /\ (Absent(mixing_) <=> Absent(unmixing_))
    /\ var_order_ = pre.var_order_
    /\ nfft_ = pre.nfft_

\* C20 - getTFConnectivity is a pure query: whether it returns or fails,
\* data_, cl_, activations_, mixing_, unmixing_, var_model_, var_cov_,
\* connectivity_ and var_delta_ are as they were before the call, and
\* getConnectivity has the same outcome on the object after the call as it
\* has on the object before it, for every measure.
C20_SlidingWindowPure ==
    lastOp = "getTFConnectivity" =>
        /\ data_ = pre.data_
        /\ cl_ = pre.cl_
        /\ activations_ = pre.activations_
        /\ mixing_ = pre.mixing_
        /\ unmixing_ = pre.unmixing_
        /\ var_model_ = pre.var_model_
        /\ var_cov_ = pre.var_cov_
        /\ connectivity_ = pre.connectivity_
        /\ var_delta_ = pre.var_delta_
        /\ \A m \in MeasureInputs :
              getConnectivity(Self, m).ret = getConnectivity(pre, m).ret

\* a sliding-window call has just returned its windows on an object that
\* holds a Connectivity Model
C20_Witness ==
    /\ lastOp = "getTFConnectivity"
    /\ ret.kind = "ok"
    /\ \E j \in 1..Len(calls) : IsStore(calls[j])
    /\ ~Absent(connectivity_)
    /\ getConnectivity(Self, "dtf").ret.kind = "ok"

\* a sliding-window call has just failed in a collaborator on an object that
\* holds a Connectivity Model
C20_WitnessFailed ==
    /\ lastOp = "getTFConnectivity"
    /\ ret.kind = ComputationError
    /\ ~Absent(connectivity_)

====
